---- MODULE Spec2Model ----
(***************************************************************************)
(* Entanglement engine: parameter selection (core.py), seed-graph          *)
(* construction (fault_tolerance.py), the geometry convergence loop        *)
(* (compare.py run_geometry, fault_tolerance.py test_fault_tolerance) and  *)
(* the reactive correction loop (compare.py run_correction).               *)
(*                                                                         *)
(* Arithmetic.  The program computes with IEEE doubles.  Here an angle is  *)
(* an integer number of milliradians, a sine, cosine or coherence is an    *)
(* integer number of thousandths, and 2*pi is 2 * Pi milliradians.         *)
(* Every "% (2 * np.pi)" of the source is "% TwoPi" here.                  *)
(*                                                                         *)
(* Randomness.  numpy's global generator is a stream of uniform samples    *)
(* whose seed is unknown.  Here the stream is an arbitrary tape of         *)
(* TapeLen samples u/TapeBase, read cyclically; every tape is a possible   *)
(* run of the program.                                                     *)
(***************************************************************************)
EXTENDS Integers, Sequences, FiniteSets, TLC

VARIABLES
    call,       \* the public function a client called last, with its argument
    ret,        \* what that call returned, or ValueError
    rank,       \* the geometry's distance ranking of the seed vertices
    rng,        \* numpy's global generator: the tape and the reading position
    pc,         \* where the running function is
    args,       \* the arguments the running function was called with
    phases,     \* the phase vector
    step,       \* the loop variable "step"
    total_corrections,  \* run_correction's counter
    result,     \* the dict the function returned
    params,     \* the dict entanglement_params returned
    n_frozen,   \* the seed graph: its size,
    frozen_adj, \*   its adjacency,
    layer_indices,  \* and its layers
    adj,        \* the adjacency of the combined population
    trial,      \* test_fault_tolerance's loop variable "trial"
    results,    \* test_fault_tolerance's list "results"
    fresh,      \* history: the phase vector as lines 121-122 built it
    measured    \* history: the coherences the loop has compared with target

apiVars == <<call, ret>>
runVars == <<rng, pc, args, phases, step, total_corrections, result>>
seedVars == <<params, n_frozen, frozen_adj, layer_indices>>
geoVars == <<params, n_frozen, frozen_adj, layer_indices, adj, trial, results,
             fresh, measured>>
vars == <<call, ret, rank, rng, pc, args, phases, step, total_corrections, result,
          params, n_frozen, frozen_adj, layer_indices, adj, trial, results,
          fresh, measured>>

(***************************************************************************)
(* Bounds of the model.                                                    *)
(***************************************************************************)
MaxK == 6
Spread == 4
MaxSeedK == 4
RankLen == 2
RankBase == 3
TapeLen == 2
TapeBase == 4
MaxPoolC == 3
MaxStepsC == 6
MaxPool == 2
MaxSteps == 5
MaxTrials == 2
MaxStepsL == 13
WiringTapeLen == 3
MaxStepsW == 2
MaxStepsR == 25

(***************************************************************************)
(* core.py                                                                 *)
(***************************************************************************)
\* a call either returns a value or leaves by raising ValueError
Return(v) == [raised |-> FALSE, value |-> v]
ValueError == [raised |-> TRUE, value |-> 0]

T(n) == (n * (n + 1)) \div 2

\* the loop "for _ in range(K - 3): shell *= 3; v += shell", r rounds left
RECURSIVE crystal_shells(_, _, _)
crystal_shells(r, shell, v) ==
    IF r <= 0 THEN v
    ELSE crystal_shells(r - 1, shell * 3, v + shell * 3)

\* the same loop with the two statements swapped
RECURSIVE crystal_shells_swapped(_, _, _)
crystal_shells_swapped(r, shell, v) ==
    IF r <= 0 THEN v
    ELSE crystal_shells_swapped(r - 1, shell * 3, v + shell)

crystal_vertices_swapped(K) ==
    IF K < 2 THEN ValueError
    ELSE IF K = 2 THEN Return(13)
    ELSE Return(crystal_shells_swapped(K - 3, 12, 1 + 3 + 12))

crystal_vertices(K) ==
    IF K < 2 THEN ValueError
    ELSE IF K = 2 THEN Return(13)
    ELSE Return(crystal_shells(K - 3, 12, 1 + 3 + 12))

\* optimal_K with the first threshold compared strictly
optimal_K_strict(pool) ==
    IF pool < 150 THEN 2
    ELSE IF pool <= 400 THEN 3
    ELSE IF pool <= 3000 THEN 4
    ELSE IF pool <= 15000 THEN 5
    ELSE 6

optimal_K(pool) ==
    IF pool <= 150 THEN 2
    ELSE IF pool <= 400 THEN 3
    ELSE IF pool <= 3000 THEN 4
    ELSE IF pool <= 15000 THEN 5
    ELSE 6

rhythm_sequence ==
    << <<1, 0>>, <<2, 1>>, <<3, 2>>, <<4, 0>>,
       <<5, 1>>, <<6, 2>>, <<7, 0>>, <<8, 1>>,
       <<9, 2>>, <<10, 0>>, <<11, 1>>, <<12, 2>> >>

\* in thousandths: 3/T(3) = 0.5, 3/T(4) = 0.3, 2/T(4) = 0.2
optimal_amplitude(pool) ==
    IF pool <= 100 THEN (3 * 1000) \div T(3)
    ELSE IF pool <= 500 THEN (3 * 1000) \div T(4)
    ELSE (2 * 1000) \div T(4)

\* crystal_vertices raises only for K < 2, which optimal_K never returns;
\* an exception raised while the dict is built leaves the call by ValueError
entanglement_params(pool) ==
    LET K == optimal_K(pool)
        V == crystal_vertices(K)
    IN  IF V.raised THEN ValueError
        ELSE Return([K |-> K, V |-> V.value,
                     amplitude |-> optimal_amplitude(pool),
                     rhythm |-> rhythm_sequence])

(***************************************************************************)
(* The values of the variables of a part of the program that is not        *)
(* running.                                                                *)
(***************************************************************************)
NoCall == [fn |-> "none", arg |-> 0]
NoResult == [steps |-> 0, coherence |-> 0, corrections |-> 0, success |-> FALSE]
NoArgs == [fn |-> "none"]
IdleRng == [tape |-> <<0>>, pos |-> 0]

IdleRun ==
    /\ rng = IdleRng
    /\ pc = "idle"
    /\ args = NoArgs
    /\ phases = << >>
    /\ step = 0
    /\ total_corrections = 0
    /\ result = NoResult

IdleGeometry ==
    /\ params = [K |-> 0]
    /\ n_frozen = 0
    /\ frozen_adj = << >>
    /\ layer_indices = << >>
    /\ adj = << >>
    /\ trial = 0
    /\ results = << >>
    /\ fresh = << >>
    /\ measured = << >>

IdleApi ==
    /\ call = NoCall
    /\ ret = Return(0)
    /\ rank = [i \in 1..RankLen |-> 0]

(***************************************************************************)
(* Python lists.                                                           *)
(***************************************************************************)
InList(x, s) == \E k \in DOMAIN s : s[k] = x
Elems(s) == {s[k] : k \in DOMAIN s}
\* list(range(a, b))
Range(a, b) == [k \in 1..(b - a) |-> a + k - 1]

\* "for i in range(lo, hi + 1): acc = Body(acc, i)".  The rounds run in
\* ascending order; the range is split in halves, and the left half is
\* computed first (the test on <<left>> is never true), only to keep the
\* depth of TLC's evaluation logarithmic.
RECURSIVE ForEach(_, _, _, _)
ForEach(Body(_, _), acc, lo, hi) ==
    IF lo > hi THEN acc
    ELSE IF lo = hi THEN Body(acc, lo)
    ELSE LET mid == (lo + hi) \div 2
             left == ForEach(Body, acc, lo, mid)
         IN  IF <<left>> = << >> THEN left
             ELSE ForEach(Body, left, mid + 1, hi)

Min(S) == CHOOSE x \in S : \A y \in S : x <= y
Max(S) == CHOOSE x \in S : \A y \in S : y <= x

\* list(set(s)): the distinct elements.  The order Python gives them is the
\* set's iteration order; only sums and membership tests read these lists,
\* so they are kept here in ascending order.
RECURSIVE SortedList(_)
SortedList(S) ==
    IF S = {} THEN << >>
    ELSE LET m == Min(S) IN <<m>> \o SortedList(S \ {m})

(***************************************************************************)
(* numpy, in fixed point.                                                  *)
(***************************************************************************)
\* np.pi, in milliradians
Pi == 3142
TwoPi == 2 * Pi

\* 1000 * sin(x) for 0 <= x <= Pi (Bhaskara's rational approximation)
SinHalf(x) ==
    LET p == x * (Pi - x)
    IN  (16000 * (p \div 100)) \div ((5 * Pi * Pi - 4 * p) \div 100)

SinTable == [x \in 0..(TwoPi - 1) |-> IF x <= Pi THEN SinHalf(x) ELSE 0 - SinHalf(x - Pi)]

\* np.sin and np.cos of an angle in milliradians, in thousandths
sin(x) == SinTable[x % TwoPi]
cos(x) == SinTable[(x + Pi \div 2) % TwoPi]

\* np.sign
sign(x) == IF x > 0 THEN 1 ELSE IF x < 0 THEN 0 - 1 ELSE 0
\* abs
abs(x) == IF x < 0 THEN 0 - x ELSE x

\* the integer square root, by bisection: lo * lo <= x < hi * hi
RECURSIVE isqrt(_, _, _)
isqrt(x, lo, hi) ==
    IF hi - lo <= 1 THEN lo
    ELSE LET mid == (lo + hi) \div 2
         IN  IF mid * mid <= x THEN isqrt(x, mid, hi) ELSE isqrt(x, lo, mid)

\* the float nan: every comparison with it is false
NaN == 0 - 1
GreaterEqual(c, t) == c # NaN /\ c >= t

\* compare.py lines 12-14 and fault_tolerance.py lines 146-147:
\* np.abs(np.mean(np.exp(1j * phases))), in thousandths; the mean of an
\* empty array is nan
coherence(ph) ==
    LET n == Cardinality(DOMAIN ph)
        re == ForEach(LAMBDA a, i : a + cos(ph[i]), 0, 0, n - 1) \div n
        im == ForEach(LAMBDA a, i : a + sin(ph[i]), 0, 0, n - 1) \div n
    IN  IF n = 0 THEN NaN ELSE isqrt(re * re + im * im, 0, 1500)

(***************************************************************************)
(* numpy's global random generator.                                        *)
(***************************************************************************)
Tapes == [1..TapeLen -> 0..(TapeBase - 1)]

\* the k-th next sample u, as the integer u * TapeBase
Sample(g, k) == g.tape[((g.pos + k) % Len(g.tape)) + 1]
Advance(g, k) == [g EXCEPT !.pos = (@ + k) % Len(g.tape)]

\* np.random.uniform(0, 2*np.pi, size): size samples scaled to [0, 2*pi)
uniform(g, size) == [i \in 0..(size - 1) |-> (Sample(g, i) * TwoPi) \div TapeBase]

(***************************************************************************)
(* fault_tolerance.py: build_crystal_adjacency                             *)
(***************************************************************************)
ShellNames == <<"shell_4", "shell_5", "shell_6", "shell_7", "shell_8">>

\* the loop of lines 58-65; st = [n |-> len(positions), layers |-> layer_indices]
RECURSIVE add_shells(_, _, _, _)
add_shells(layer, K, shell_size, st) ==
    IF layer >= K - 3 THEN st
    ELSE LET size == shell_size * 3
             start == st.n
         IN  add_shells(layer + 1, K, size,
                 [n |-> start + size,
                  layers |-> (ShellNames[layer + 1] :> Range(start, start + size))
                             @@ st.layers])

\* lines 46-65 with "shell_size *= 3" after the shell is added, not before
crystal_layers_late_growth(K) ==
    LET c == [n |-> 1, layers |-> ("center" :> <<0>>)]
        t == IF K >= 3
             THEN [n |-> c.n + 3,
                   layers |-> ("triad" :> Range(c.n, c.n + 3)) @@ c.layers]
             ELSE c
        i == [n |-> t.n + 12,
              layers |-> ("icosa" :> Range(t.n, t.n + 12)) @@ t.layers]
    IN  add_shells(0, K, 4, i)

\* lines 46-65: the positions (only their number matters here) and the layers
crystal_layers(K) ==
    LET c == [n |-> 1, layers |-> ("center" :> <<0>>)]
        t == IF K >= 3
             THEN [n |-> c.n + 3,
                   layers |-> ("triad" :> Range(c.n, c.n + 3)) @@ c.layers]
             ELSE c
        i == [n |-> t.n + 12,
              layers |-> ("icosa" :> Range(t.n, t.n + 12)) @@ t.layers]
    IN  add_shells(0, K, 12, i)

\* lines 78-80: dists.sort() and dists[:6], the (at most) 6 vertices nearest
\* to i among the other non-center vertices.  The positions are floating-point
\* coordinates; their ranking is an input here: vertex i ranks the others in
\* cyclic index order starting rk[i] places after itself.
nearest(i, n, rk) ==
    LET m == n - 1
        off == (rk[(i % Len(rk)) + 1] * (m - 1)) \div RankBase
        other(d) == ((i - 1 + d) % m) + 1
        cnt == IF m - 1 < 6 THEN m - 1 ELSE 6
    IN  [t \in 1..cnt |-> other(((off + t - 1) % (m - 1)) + 1)]

\* lines 74-75, one round of "for i in range(1, n)"
star(ad, i) == [ad EXCEPT ![0] = Append(@, i), ![i] = Append(@, 0)]

\* lines 81-83 with the reverse edge forgotten
connect_one_way(ad, i, j) ==
    IF InList(j, ad[i]) THEN ad
    ELSE [ad EXCEPT ![i] = Append(@, j)]

\* lines 81-83
connect(ad, i, j) ==
    IF InList(j, ad[i]) THEN ad
    ELSE [ad EXCEPT ![i] = Append(@, j), ![j] = Append(@, i)]

\* lines 78-83, one round of "for i in range(1, n)"
nearest_neighbors(ad, i, n, rk) ==
    LET js == nearest(i, n, rk)
    IN  ForEach(LAMBDA a, k : connect(a, i, js[k]), ad, 1, Len(js))

build_crystal_adjacency(K, rk) ==
    LET pl == crystal_layers(K)
        n == pl.n
        adj0 == [i \in 0..(n - 1) |-> << >>]
        adj1 == ForEach(star, adj0, 1, n - 1)
        adj2 == ForEach(LAMBDA a, i : nearest_neighbors(a, i, n, rk), adj1, 1, n - 1)
        adj3 == [i \in 0..(n - 1) |-> SortedList(Elems(adj2[i]))]
    IN  [n |-> n, adj |-> adj3, layer_indices |-> pl.layers]

(***************************************************************************)
(* A client of the package's public functions (__init__.py __all__ and the *)
(* "params" and "crystal" commands of cli.py): it makes one call, with an  *)
(* argument around the documented thresholds.                              *)
(***************************************************************************)
Boundaries == {0, 100, 150, 400, 500, 3000, 15000}
PoolInputs == {b + d : b \in Boundaries, d \in (0 - Spread)..Spread}
KInputs == (0 - MaxK)..MaxK

RankTapes == [1..RankLen -> 0..(RankBase - 1)]
SeedKs == 2..MaxSeedK

InitParams ==
    /\ call = NoCall
    /\ ret = Return(0)
    /\ rank \in RankTapes
    /\ IdleRun
    /\ IdleGeometry

CallCrystalVertices ==
    /\ call = NoCall
    /\ UNCHANGED <<rank, runVars, geoVars>>
    /\ \E K \in KInputs :
        /\ call' = [fn |-> "crystal_vertices", arg |-> K]
        /\ ret' = crystal_vertices(K)

CallOptimalK ==
    /\ call = NoCall
    /\ UNCHANGED <<rank, runVars, geoVars>>
    /\ \E pool \in PoolInputs :
        /\ call' = [fn |-> "optimal_K", arg |-> pool]
        /\ ret' = Return(optimal_K(pool))

CallOptimalAmplitude ==
    /\ call = NoCall
    /\ UNCHANGED <<rank, runVars, geoVars>>
    /\ \E pool \in PoolInputs :
        /\ call' = [fn |-> "optimal_amplitude", arg |-> pool]
        /\ ret' = Return(optimal_amplitude(pool))

CallEntanglementParams ==
    /\ call = NoCall
    /\ UNCHANGED <<rank, runVars, geoVars>>
    /\ \E pool \in PoolInputs :
        /\ call' = [fn |-> "entanglement_params", arg |-> pool]
        /\ ret' = entanglement_params(pool)

CallBuildCrystalAdjacency ==
    /\ call = NoCall
    /\ UNCHANGED <<rank, runVars, geoVars>>
    /\ \E K \in SeedKs :
        /\ call' = [fn |-> "build_crystal_adjacency", arg |-> K]
        /\ ret' = Return(build_crystal_adjacency(K, rank))

NextParams ==
    \/ CallBuildCrystalAdjacency
    \/ CallCrystalVertices
    \/ CallOptimalK
    \/ CallOptimalAmplitude
    \/ CallEntanglementParams

SpecParams == InitParams /\ [][NextParams]_vars

(***************************************************************************)
(* compare.py: run_correction(pool_size, max_steps, target, threshold,     *)
(* strength)                                                               *)
(***************************************************************************)
\* line 108
reference == 0

\* lines 123-124: the error to the reference, wrapped to [-pi, pi)
wrapped_error(p) == ((p - reference + Pi) % TwoPi) - Pi

\* lines 126-130 with the unwrapped error compared
correct_one_unwrapped(acc, ph, i, threshold, strength) ==
    LET error == ph[i] - reference
    IN  IF abs(error) > threshold
        THEN [new_phases |-> [acc.new_phases EXCEPT
                                 ![i] = (ph[i] - strength * sign(error)) % TwoPi],
              step_corrections |-> acc.step_corrections + 1]
        ELSE acc

\* lines 121-130, one round of "for i in range(pool_size)"
correct_one(acc, ph, i, threshold, strength) ==
    LET error == wrapped_error(ph[i])
    IN  IF abs(error) > threshold
        THEN [new_phases |-> [acc.new_phases EXCEPT
                                 ![i] = (ph[i] - strength * sign(error)) % TwoPi],
              step_corrections |-> acc.step_corrections + 1]
        ELSE acc

\* lines 117-130: new_phases = phases.copy(), step_corrections = 0, the loop
correction_pass(ph, threshold, strength) ==
    ForEach(LAMBDA acc, i : correct_one(acc, ph, i, threshold, strength),
            [new_phases |-> ph, step_corrections |-> 0],
            0, Cardinality(DOMAIN ph) - 1)

TargetsC == {0, 900, 1100}
ThresholdsC == {0, 500}
StrengthsC == {300}

\* the call, and lines 107-110
InitCorrection ==
    /\ IdleApi
    /\ \E pool_size \in 0..MaxPoolC, max_steps \in 0..MaxStepsC,
          target \in TargetsC, threshold \in ThresholdsC,
          strength \in StrengthsC, tape \in Tapes :
        /\ args = [fn |-> "run_correction", pool_size |-> pool_size,
                   max_steps |-> max_steps, target |-> target,
                   threshold |-> threshold, strength |-> strength]
        /\ phases = uniform([tape |-> tape, pos |-> 0], pool_size)
        /\ rng = Advance([tape |-> tape, pos |-> 0], pool_size)
    /\ total_corrections = 0
    /\ step = 0
    /\ pc = "loop"
    /\ result = NoResult
    /\ IdleGeometry

\* lines 112-115: the target is reached
CorrectionReturn ==
    /\ pc = "loop"
    /\ args.fn = "run_correction"
    /\ step < args.max_steps
    /\ LET c == coherence(phases)
       IN  /\ GreaterEqual(c, args.target)
           /\ result' = [steps |-> step + 1, coherence |-> c,
                         corrections |-> total_corrections, success |-> TRUE]
    /\ pc' = "done"
    /\ UNCHANGED <<apiVars, rank, geoVars, rng, args, phases, step, total_corrections>>

\* lines 112-135: the target is not reached, one pass of corrections
CorrectionStep ==
    /\ pc = "loop"
    /\ args.fn = "run_correction"
    /\ step < args.max_steps
    /\ ~GreaterEqual(coherence(phases), args.target)
    /\ LET done == correction_pass(phases, args.threshold, args.strength)
       IN  /\ phases' = done.new_phases
           /\ total_corrections' = total_corrections + done.step_corrections
    /\ step' = step + 1
    /\ UNCHANGED <<apiVars, rank, geoVars, rng, args, pc, result>>

\* line 137: the step budget is exhausted
CorrectionExhausted ==
    /\ pc = "loop"
    /\ args.fn = "run_correction"
    /\ step >= args.max_steps
    /\ result' = [steps |-> args.max_steps, coherence |-> coherence(phases),
                  corrections |-> total_corrections, success |-> FALSE]
    /\ pc' = "done"
    /\ UNCHANGED <<apiVars, rank, geoVars, rng, args, phases, step, total_corrections>>

NextCorrection ==
    \/ CorrectionReturn
    \/ CorrectionStep
    \/ CorrectionExhausted

SpecCorrection == InitCorrection /\ [][NextCorrection]_vars

(***************************************************************************)
(* compare.py run_geometry(pool_size, max_steps, target) and               *)
(* fault_tolerance.py test_fault_tolerance(pool_size, corruption,          *)
(* max_steps, target, trials).  Lines are those of fault_tolerance.py; the *)
(* same statements are lines 23-90 of compare.py.                          *)
(***************************************************************************)
Remove(s, k) == SubSeq(s, 1, k - 1) \o SubSeq(s, k + 1, Len(s))

\* np.random.choice(population, size, replace=False): one draw after the
\* other from what is left of the population
choice(g, population, size) ==
    ForEach(LAMBDA acc, t :
                LET k == ((Sample(acc.g, 0) * Len(acc.rest)) \div TapeBase) + 1
                IN  [rest |-> Remove(acc.rest, k),
                     picked |-> Append(acc.picked, acc.rest[k]),
                     g |-> Advance(acc.g, 1)],
            [rest |-> population, picked |-> << >>, g |-> g],
            1, size)

\* line 128 with the tenth rounded to nearest
n_contacts_rounded(pool_size) == Max({1, (pool_size + 5) \div 10})

\* line 128: max(1, int(pool_size * 0.1)); int() truncates, and the double
\* pool_size * 0.1 is never below pool_size / 10
n_contacts(pool_size) == Max({1, pool_size \div 10})

\* lines 130-133, one round of "for i in range(n_frozen, n_total)"
attach(acc, i, nf, pool_size) ==
    LET ch == choice(acc.g, Range(0, nf), Min({n_contacts(pool_size), nf}))
    IN  [ad |-> ForEach(LAMBDA a, t : [a EXCEPT ![i] = Append(@, ch.picked[t]),
                                                ![ch.picked[t]] = Append(@, i)],
                        acc.ad, 1, Len(ch.picked)),
         g |-> ch.g]

\* lines 137-141 without the test "if j not in adj[i]"
mesh_unguarded(acc, fluid_nodes) ==
    IF Len(fluid_nodes) >= 2
    THEN LET ch == choice(acc.g, fluid_nodes, 2)
         IN  [ad |-> [acc.ad EXCEPT ![ch.picked[1]] = Append(@, ch.picked[2]),
                                    ![ch.picked[2]] = Append(@, ch.picked[1])],
              g |-> ch.g]
    ELSE acc

\* lines 137-141, one round of "for _ in range(pool_size * 2)"
mesh(acc, fluid_nodes) ==
    IF Len(fluid_nodes) >= 2
    THEN LET ch == choice(acc.g, fluid_nodes, 2)
         IN  [ad |-> connect(acc.ad, ch.picked[1], ch.picked[2]), g |-> ch.g]
    ELSE acc

\* line 124 without list(): adj[i] is the very list frozen_adj[i]
shares_list_uncopied(i, nf) == i < nf

\* line 124: whether adj[i] is the list object frozen_adj[i];
\* list(frozen_adj[i]) is a new list, so an append to adj[i] never is an
\* append to frozen_adj[i]
shares_list(i, nf) == FALSE

\* lines 120-141: the phase vector and the adjacency of one trial, and
\* frozen_adj as the appends of lines 132-133 and 140-141 leave it
assemble(g, nf, fadj, pool_size) ==
    LET n_total == nf + pool_size
        drawn == uniform(g, pool_size)
        ph == [i \in 0..(n_total - 1) |-> IF i < nf THEN 0 ELSE drawn[i - nf]]
        ad0 == [i \in 0..(n_total - 1) |-> IF i < nf THEN fadj[i] ELSE << >>]
        ad1 == ForEach(LAMBDA acc, i : attach(acc, i, nf, pool_size),
                       [ad |-> ad0, g |-> Advance(g, pool_size)],
                       nf, n_total - 1)
        fluid_nodes == Range(nf, n_total)
        ad2 == ForEach(LAMBDA acc, u : mesh(acc, fluid_nodes), ad1, 1, pool_size * 2)
    IN  [phases |-> ph, adj |-> ad2.ad, g |-> ad2.g,
         frozen_adj |-> [i \in 0..(nf - 1) |->
                            IF shares_list(i, nf) THEN ad2.ad[i] ELSE fadj[i]]]

\* lines 143-144
frozen_mask(i, nf) == i < nf

layer_keys == <<"center", "triad", "icosa">>

\* lines 153-162 with the direction of line 161 always 1
pulse_one_way(new_phases, ph, s, prm, layers) ==
    LET beat_idx == s % 12
        active_layer == prm.rhythm[beat_idx + 1][2]
    IN  IF active_layer < Len(layer_keys)
           /\ layer_keys[active_layer + 1] \in DOMAIN layers
        THEN LET members == layers[layer_keys[active_layer + 1]]
             IN  ForEach(LAMBDA np, k :
                             [np EXCEPT ![members[k]] =
                                 (ph[members[k]] + prm.amplitude) % TwoPi],
                         new_phases, 1, Len(members))
        ELSE new_phases

\* lines 153-162: the pulse, written into new_phases
pulse(new_phases, ph, s, prm, layers) ==
    LET beat_idx == s % 12
        active_layer == prm.rhythm[beat_idx + 1][2]
        direction == IF (s \div 12) % 2 = 0 THEN 1 ELSE 0 - 1
    IN  IF active_layer < Len(layer_keys)
           /\ layer_keys[active_layer + 1] \in DOMAIN layers
        THEN LET members == layers[layer_keys[active_layer + 1]]
             IN  ForEach(LAMBDA np, k :
                             [np EXCEPT ![members[k]] =
                                 (ph[members[k]] + direction * prm.amplitude) % TwoPi],
                         new_phases, 1, Len(members))
        ELSE new_phases

\* the array the coupling sum reads, were the update made in place
in_place(ph, new_phases) == new_phases

\* line 169: the array the coupling sum reads
snapshot(ph, new_phases) == ph

\* the loop of lines 164-171 that does not skip the frozen oscillators
couple_all(new_phases, ph, ad, i, nf) ==
    LET src == snapshot(ph, new_phases)
        neighbors == ad[i]
        phase_diff_sum == ForEach(LAMBDA a, k : a + sin(src[neighbors[k]] - src[i]),
                                  0, 1, Len(neighbors))
    IN  IF neighbors # << >>
        THEN [new_phases EXCEPT ![i] =
                 (src[i] + 100 + (3 * phase_diff_sum) \div (10 * Len(neighbors))) % TwoPi]
        ELSE new_phases

\* lines 164-171, one round of "for i in range(n_total)":
\* phases[i] + 0.1 + (0.3 / len(neighbors)) * phase_diff_sum, modulo 2*pi
couple(new_phases, ph, ad, i, nf) ==
    LET src == snapshot(ph, new_phases)
        neighbors == ad[i]
        phase_diff_sum == ForEach(LAMBDA a, k : a + sin(src[neighbors[k]] - src[i]),
                                  0, 1, Len(neighbors))
    IN  IF frozen_mask(i, nf) THEN new_phases
        ELSE IF neighbors # << >>
        THEN [new_phases EXCEPT ![i] =
                 (src[i] + 100 + (3 * phase_diff_sum) \div (10 * Len(neighbors))) % TwoPi]
        ELSE new_phases

\* lines 149-173 (compare.py lines 65-88): new_phases = phases.copy(), the
\* pulse, the coupling, phases = new_phases
wave_step(ph, ad, s, prm, layers, nf) ==
    LET pulsed == pulse(ph, ph, s, prm, layers)
    IN  ForEach(LAMBDA np, i : couple(np, ph, ad, i, nf),
                pulsed, 0, Cardinality(DOMAIN ph) - 1)

\* line 178 (compare.py line 63) reporting the loop variable itself
steps_taken_zero_based(s) == s

\* line 178 (compare.py line 63): 'steps': step + 1
steps_taken(s) == s + 1

IsGeometry == args.fn = "run_geometry"
IsFault == args.fn = "test_fault_tolerance"

\* lines 108-114 (compare.py lines 23-27)
Setup ==
    /\ pc = "start"
    /\ LET prm == entanglement_params(args.pool_size)
       IN  IF prm.raised
           THEN /\ pc' = "raised"
                /\ UNCHANGED <<seedVars, results>>
           ELSE LET built == build_crystal_adjacency(prm.value.K, rank)
                IN  /\ params' = prm.value
                    /\ n_frozen' = built.n
                    /\ frozen_adj' = built.adj
                    /\ layer_indices' = built.layer_indices
                    /\ results' = << >>
                    /\ pc' = "assemble"
    /\ UNCHANGED <<apiVars, rank, rng, args, phases, step, total_corrections,
                   result, adj, trial, fresh, measured>>

\* lines 120-144 (compare.py lines 28-57)
Assemble ==
    /\ pc = "assemble"
    /\ LET built == assemble(rng, n_frozen, frozen_adj, args.pool_size)
       IN  /\ phases' = built.phases
           /\ fresh' = built.phases
           /\ adj' = built.adj
           /\ frozen_adj' = built.frozen_adj
           /\ rng' = built.g
    /\ step' = 0
    /\ measured' = << >>
    /\ pc' = "loop"
    /\ UNCHANGED <<apiVars, rank, args, total_corrections, result, params,
                   n_frozen, layer_indices, trial, results>>

\* lines 175-181 (compare.py lines 60-63): the target is reached
LoopReturn ==
    /\ pc = "loop"
    /\ ~(args.fn = "run_correction")
    /\ step < args.max_steps
    /\ LET c == coherence(phases)
       IN  /\ GreaterEqual(c, args.target)
           /\ measured' = Append(measured, c)
           /\ IF IsGeometry
              THEN /\ result' = [steps |-> steps_taken(step), coherence |-> c,
                                 corrections |-> 0, success |-> TRUE]
                   /\ pc' = "done"
                   /\ UNCHANGED results
              ELSE /\ results' = Append(results,
                                    [steps |-> steps_taken(step), coherence |-> c,
                                     success |-> TRUE])
                   /\ pc' = "trial_end"
                   /\ UNCHANGED result
    /\ UNCHANGED <<apiVars, rank, rng, args, phases, step, total_corrections,
                   seedVars, adj, trial, fresh>>

\* lines 175-182 (compare.py lines 60-88): the target is not reached, one step
LoopStep ==
    /\ pc = "loop"
    /\ ~(args.fn = "run_correction")
    /\ step < args.max_steps
    /\ LET c == coherence(phases)
       IN  /\ ~GreaterEqual(c, args.target)
           /\ measured' = Append(measured, c)
    /\ phases' = wave_step(phases, adj, step, params, layer_indices, n_frozen)
    /\ step' = step + 1
    /\ UNCHANGED <<apiVars, rank, rng, args, pc, total_corrections, result,
                   seedVars, adj, trial, results, fresh>>

\* line 184 reporting c, the value the loop compared last
final_coherence_stale(ph, compared) ==
    IF compared = << >> THEN coherence(ph) ELSE compared[Len(compared)]

\* line 184 (compare.py line 90): 'coherence': coherence(), measured anew on
\* the phases the last update left
final_coherence(ph, compared) == coherence(ph)

\* lines 183-184 (compare.py line 90): the step budget is exhausted
LoopExhausted ==
    /\ pc = "loop"
    /\ ~(args.fn = "run_correction")
    /\ step >= args.max_steps
    /\ IF IsGeometry
       THEN /\ result' = [steps |-> args.max_steps,
                          coherence |-> final_coherence(phases, measured),
                          corrections |-> 0, success |-> FALSE]
            /\ pc' = "done"
            /\ UNCHANGED results
       ELSE /\ results' = Append(results,
                             [steps |-> args.max_steps,
                              coherence |-> final_coherence(phases, measured),
                              success |-> FALSE])
            /\ pc' = "trial_end"
            /\ UNCHANGED result
    /\ UNCHANGED <<apiVars, rank, rng, args, phases, step, total_corrections,
                   seedVars, adj, trial, fresh, measured>>

\* line 116: the next trial
NextTrial ==
    /\ pc = "trial_end"
    /\ trial + 1 < args.trials
    /\ trial' = trial + 1
    /\ pc' = "assemble"
    /\ UNCHANGED <<apiVars, rank, rng, args, phases, step, total_corrections,
                   result, seedVars, adj, results, fresh, measured>>

Sum(s, field) == ForEach(LAMBDA a, k : a + s[k][field], 0, 1, Len(s))

\* lines 188-198: the means are in thousandths
Summarize ==
    /\ pc = "trial_end"
    /\ trial + 1 >= args.trials
    /\ LET n == Len(results)
           ok == Cardinality({k \in 1..n : results[k].success})
       IN  result' = [pool |-> args.pool_size, K |-> params.K, V |-> params.V,
                      amplitude |-> params.amplitude,
                      avg_steps |-> (1000 * Sum(results, "steps")) \div n,
                      avg_coherence |-> Sum(results, "coherence") \div n,
                      success_rate |-> (1000 * ok) \div n,
                      min_steps |-> Min({results[k].steps : k \in 1..n}),
                      max_steps |-> Max({results[k].steps : k \in 1..n})]
    /\ pc' = "done"
    /\ UNCHANGED <<apiVars, rank, rng, args, phases, step, total_corrections,
                   seedVars, adj, trial, results, fresh, measured>>

Next ==
    \/ Setup
    \/ Assemble
    \/ LoopReturn
    \/ LoopStep
    \/ LoopExhausted
    \/ NextTrial
    \/ Summarize

Targets == {0, 900, 1100}
Corruptions == {500}

\* the state in which fn was just called with these arguments
Called(a, tape) ==
    /\ IdleApi
    /\ args = a
    /\ rng = [tape |-> tape, pos |-> 0]
    /\ pc = "start"
    /\ phases = << >>
    /\ step = 0
    /\ total_corrections = 0
    /\ result = NoResult
    /\ IdleGeometry

GeometryArgs(pools, budgets, targets) ==
    {[fn |-> "run_geometry", pool_size |-> p, max_steps |-> m, target |-> t] :
        p \in pools, m \in budgets, t \in targets}

FaultArgs(pools, budgets, targets) ==
    {[fn |-> "test_fault_tolerance", pool_size |-> p, corruption |-> c,
      max_steps |-> m, target |-> t, trials |-> n] :
        p \in pools, c \in Corruptions, m \in budgets, t \in targets,
        n \in 1..MaxTrials}

\* small pools, every tape
Init ==
    \E a \in GeometryArgs(0..MaxPool, 0..MaxSteps, Targets)
               \cup FaultArgs(0..MaxPool, {MaxSteps}, {900}),
       tape \in Tapes :
        Called(a, tape)

Spec == Init /\ [][Next]_vars

\* a sweep over pool sizes on both sides of the thresholds of n_contacts and
\* optimal_K, as run_scaling_test.py and compare() make it, with a few tapes
SweepPools == {1, 15, 20, 140, 151, 401}
SweepTapes == {t \in Tapes : t[1] = 0 /\ t[Len(t)] = Len(t)}

InitSweep ==
    \E a \in GeometryArgs(SweepPools, {MaxStepsL}, {900, 1100})
               \cup FaultArgs({20, 151}, {MaxStepsL}, {1100}),
       tape \in SweepTapes :
        Called(a, tape)

SpecSweep == InitSweep /\ [][Next]_vars

\* short runs over every tape of a length that the two draws of a mesh edge
\* do not divide, so that the wiring differs from draw to draw
WiringPools == {1, 3, 20}
WiringTapes == [1..WiringTapeLen -> 0..(TapeBase - 1)]

InitWiring ==
    \E a \in GeometryArgs(WiringPools, {MaxStepsW}, {0, 1100})
               \cup FaultArgs({3}, {MaxStepsW}, {1100}),
       tape \in WiringTapes :
        Called(a, tape)

SpecWiring == InitWiring /\ [][Next]_vars

\* runs of more than two cycles of 12 beats, on seeds of 2, 3 and 4 layers
RhythmPools == {2, 151, 401}

InitRhythm ==
    \E a \in GeometryArgs(RhythmPools, {MaxStepsR}, {1100})
               \cup GeometryArgs({2}, {MaxStepsR}, {0})
               \cup FaultArgs({2}, {MaxStepsR}, {1100}),
       tape \in SweepTapes :
        Called(a, tape)

SpecRhythm == InitRhythm /\ [][Next]_vars

(***************************************************************************)
(* Claims about the parameter selector.                                    *)
(***************************************************************************)
RECURSIVE Pow3(_)
Pow3(m) == IF m <= 0 THEN 1 ELSE 3 * Pow3(m - 1)

RECURSIVE ShellSum(_)
ShellSum(m) == IF m <= 0 THEN 0 ELSE 12 * Pow3(m) + ShellSum(m - 1)

ClosedVertices(K) == IF K = 2 THEN 13 ELSE 16 + ShellSum(K - 3)

DocumentedVertices == (2 :> 13) @@ (3 :> 16) @@ (4 :> 52) @@ (5 :> 160) @@ (6 :> 484)

\* C6: crystal_vertices(K) raises ValueError for every K < 2; for K >= 2 it
\* returns 13 when K = 2 and 16 + sum over m in 1..K-3 of 12*3^m when K >= 3,
\* which is the documented value for K in 2..6 and is strictly greater than
\* the value at every smaller K >= 2.
C6_CrystalVertices ==
    call.fn = "crystal_vertices" =>
        /\ call.arg < 2 => ret.raised
        /\ call.arg >= 2 =>
            /\ ~ret.raised
            /\ ret.value = ClosedVertices(call.arg)
            /\ call.arg \in DOMAIN DocumentedVertices
                   => ret.value = DocumentedVertices[call.arg]
            /\ \A J \in 2..(call.arg - 1) :
                   /\ ~crystal_vertices(J).raised
                   /\ crystal_vertices(J).value < ret.value

C6_Witness ==
    /\ call.fn = "crystal_vertices"
    /\ call.arg = 5
    /\ ret = Return(160)

Thresholds == {150, 400, 3000, 15000}
DocumentedK(pool) == 2 + Cardinality({t \in Thresholds : pool > t})

\* C7: for pool_size > 0, optimal_K(pool_size) is in 2..6, equals the K of
\* the documented threshold table (so it changes exactly at 150/151, 400/401,
\* 3000/3001, 15000/15001) and is not below optimal_K of any smaller positive
\* pool size; entanglement_params(pool_size) does not raise, has K >= 2 and
\* V = the closed vertex count of that K.
C7_OptimalK ==
    /\ (call.fn = "optimal_K" /\ call.arg > 0) =>
        /\ ret.value \in 2..6
        /\ ret.value = DocumentedK(call.arg)
        /\ \A q \in PoolInputs :
               (0 < q /\ q <= call.arg) => optimal_K(q) <= ret.value
    /\ (call.fn = "entanglement_params" /\ call.arg > 0) =>
        /\ ~ret.raised
        /\ ret.value.K >= 2
        /\ ret.value.K = DocumentedK(call.arg)
        /\ ret.value.V = ClosedVertices(ret.value.K)

C7_Witness ==
    /\ call.fn = "entanglement_params"
    /\ call.arg = 151
    /\ ~ret.raised
    /\ ret.value.K = 3
    /\ ret.value.V = 16

(***************************************************************************)
(* Claims about the seed graph.                                            *)
(***************************************************************************)
Count(x, s) == Cardinality({k \in DOMAIN s : s[k] = x})

\* C9: in the graph build_crystal_adjacency(K) returns, K >= 2, whatever the
\* ranking: vertex 0 is adjacent to every other vertex and to nothing else;
\* every other vertex lists vertex 0 exactly once and has at least 6 distinct
\* non-center neighbours, namely its 6 nearest and the vertices that have it
\* among their 6 nearest; no list holds its own vertex or an entry twice.
C9_SeedGraph ==
    call.fn = "build_crystal_adjacency" =>
        LET n == ret.value.n
            nb == ret.value.adj
            chosen(i) == Elems(nearest(i, n, rank))
        IN  /\ DOMAIN nb = 0..(n - 1)
            /\ Elems(nb[0]) = 1..(n - 1)
            /\ Len(nb[0]) = n - 1
            /\ \A i \in 1..(n - 1) :
                /\ Count(0, nb[i]) = 1
                /\ Cardinality(Elems(nb[i]) \ {0}) >= 6
                /\ Elems(nb[i]) \ {0} =
                       chosen(i) \cup {j \in 1..(n - 1) : i \in chosen(j)}
            /\ \A i \in 0..(n - 1) :
                /\ ~InList(i, nb[i])
                /\ Len(nb[i]) = Cardinality(Elems(nb[i]))

\* a seed graph in which some vertex was chosen by a vertex it did not choose
C9_Witness ==
    /\ call.fn = "build_crystal_adjacency"
    /\ call.arg >= 3
    /\ \E i \in 1..(ret.value.n - 1) :
           Cardinality(Elems(ret.value.adj[i]) \ {0}) > 6

(***************************************************************************)
(* Claims about the geometry convergence loop.                             *)
(***************************************************************************)
\* the record the loop of the current trial produced
Outcome == IF IsGeometry THEN result ELSE results[Len(results)]
LoopOver == (IsGeometry /\ pc = "done") \/ (IsFault /\ pc = "trial_end")

C1_Outcome ==
    /\ step <= args.max_steps
    /\ LoopOver =>
        LET hits == {k \in 1..Len(measured) : measured[k] >= args.target}
        IN  /\ Outcome.success <=> hits # {}
            /\ Outcome.success =>
                /\ Outcome.steps = Min(hits)
                /\ Outcome.steps \in 1..args.max_steps
                /\ step = Outcome.steps - 1
            /\ ~Outcome.success =>
                /\ Outcome.steps = args.max_steps
                /\ step = args.max_steps
                /\ Len(measured) = args.max_steps

\* every iteration either ends the loop or applies one more update
C1_Iteration ==
    pc = "loop" =>
        \/ pc' = "loop" /\ step' = step + 1 /\ step < args.max_steps
        \/ pc' \in {"done", "trial_end"} /\ step' = step

\* C1: the convergence loop of run_geometry, and of each trial of
\* test_fault_tolerance, ends after at most max_steps updates: every
\* iteration ends it or applies one update, and never a (max_steps+1)-th; it
\* reports success with steps = s + 1 exactly when s is the first step index
\* below max_steps at which the coherence measured before the update reaches
\* the target (s updates were applied), and otherwise failure with
\* steps = max_steps (max_steps updates were applied).
C1_LoopContract == []C1_Outcome /\ [][C1_Iteration]_vars

\* a run that reached the target only after two updates
C1_Witness ==
    /\ pc = "done"
    /\ IsGeometry
    /\ result.success
    /\ result.steps >= 3
    /\ args.max_steps > result.steps

PoolIndices == {i \in DOMAIN phases : i >= n_frozen}

\* int(corruption * pool_size), corruption in thousandths
Corrupted == (args.corruption * args.pool_size) \div 1000

\* C2: in test_fault_tolerance the phase vector each trial's loop starts from
\* differs from the vector as built on a fraction "corruption" of the pool
\* oscillators, and on no frozen oscillator.
C2_CorruptionApplied ==
    (IsFault /\ pc = "loop" /\ step = 0) =>
        LET changed == {i \in DOMAIN phases : phases[i] # fresh[i]}
        IN  /\ changed \subseteq PoolIndices
            /\ Cardinality(changed) = Corrupted

\* the layer the schedule names at step s, when the seed has it
Scheduled(s) ==
    LET key == layer_keys[rhythm_sequence[(s % 12) + 1][2] + 1]
    IN  IF key \in DOMAIN layer_indices THEN Elems(layer_indices[key]) ELSE {}

Shells ==
    UNION {Elems(layer_indices[k]) :
              k \in DOMAIN layer_indices \ {"center", "triad", "icosa"}}

C3_Step ==
    (pc = "loop" /\ step' = step + 1) =>
        \A i \in 0..(n_frozen - 1) :
            IF i \in Scheduled(step)
            THEN phases'[i] =
                    (phases[i] + (IF (step \div 12) % 2 = 0 THEN 1 ELSE 0 - 1)
                                     * params.amplitude) % TwoPi
            ELSE phases'[i] = phases[i]

C3_Shells ==
    pc \in {"loop", "trial_end", "done"} =>
        \A i \in Shells : phases[i] = fresh[i]

\* C3: a step of the dynamics changes the phase of a frozen oscillator only
\* if its layer is the one scheduled at that step's beat, and then by the
\* pulse alone; the coupling writes no frozen index, and the vertices of the
\* layers shell_4, shell_5, ... keep their initial phase for the whole run.
C3_FrozenFrame == [][C3_Step]_vars /\ []C3_Shells

\* a seed with a shell layer, after a full cycle of 12 beats
C3_Witness ==
    /\ pc = "loop"
    /\ step >= 12
    /\ params.K = 4
    /\ Shells # {}
    /\ phases[0] # 0
    /\ \E i \in Elems(layer_indices["triad"]) : phases[i] # 0

RECURSIVE SinSum(_, _, _, _)
SinSum(ph, i, js, k) ==
    IF k > Len(js) THEN 0
    ELSE sin(ph[js[k]] - ph[i]) + SinSum(ph, i, js, k + 1)

\* the coupling update of oscillator i from the phases ph alone
Coupled(ph, i) ==
    (ph[i] + 100 + (3 * SinSum(ph, i, adj[i], 1)) \div (10 * Len(adj[i]))) % TwoPi

\* the step update with the oscillators visited from the last to the first
RECURSIVE Backwards(_, _, _)
Backwards(new_phases, ph, i) ==
    IF i < 0 THEN new_phases
    ELSE Backwards(couple(new_phases, ph, adj, i, n_frozen), ph, i - 1)

C4_Step ==
    (pc = "loop" /\ step' = step + 1) =>
        /\ \A i \in PoolIndices :
               phases'[i] = IF adj[i] = << >> THEN phases[i] ELSE Coupled(phases, i)
        /\ phases' = Backwards(pulse(phases, phases, step, params, layer_indices),
                               phases, Cardinality(DOMAIN phases) - 1)

\* C4: the step update is synchronous: the new phase of every fluid
\* oscillator is the coupling formula applied to the phases as they were
\* before the step (also those of seed vertices the same step pulses), and
\* visiting the oscillators in the opposite order gives the same vector.
C4_Synchronous == [][C4_Step]_vars

\* a step was made in which a pool oscillator is a neighbour of the pulsed
\* center and of another pool oscillator
C4_Witness ==
    /\ pc = "loop"
    /\ step >= 1
    /\ phases[0] # fresh[0]
    /\ \E i \in PoolIndices :
           /\ InList(0, adj[i])
           /\ \E j \in PoolIndices : InList(j, adj[i])

\* C5: a call with pool_size <= 0 fails at once and creates no seed graph, no
\* phase vector and no result.
C5_NonPositivePoolRejected ==
    args.pool_size <= 0 =>
        /\ pc \in {"start", "raised"}
        /\ n_frozen = 0
        /\ frozen_adj = << >>
        /\ phases = << >>
        /\ result = NoResult

SeedContacts(i) == {k \in DOMAIN adj[i] : adj[i][k] < n_frozen}
Assembled == pc \in {"loop", "trial_end", "done"}

\* round(0.1 * pool_size), halves to the even neighbour as Python rounds
RoundedTenth(p) ==
    LET q == p \div 10
        r == p % 10
    IN  IF r < 5 THEN q
        ELSE IF r > 5 THEN q + 1
        ELSE IF q % 2 = 0 THEN q ELSE q + 1

ContactsAre(count) ==
    Assembled =>
        \A i \in PoolIndices :
            /\ Cardinality(SeedContacts(i)) = Min({count, n_frozen})
            /\ Cardinality({adj[i][k] : k \in SeedContacts(i)}) = Min({count, n_frozen})
            /\ Len(adj[i]) >= 1

\* C8 as stated: every pool oscillator has min(max(1, round(0.1 * pool_size)),
\* n_frozen) distinct seed neighbours.
C8_RoundedContacts == ContactsAre(Max({1, RoundedTenth(args.pool_size)}))

\* C8, amended: every pool oscillator has min(max(1, floor(0.1 * pool_size)),
\* n_frozen) distinct seed neighbours, hence at least one neighbour.
C8_TruncatedContacts == ContactsAre(Max({1, args.pool_size \div 10}))

\* an assembled network in which the number of contacts was clamped
C8_Witness ==
    /\ Assembled
    /\ args.pool_size \div 10 > n_frozen
    /\ \A i \in PoolIndices : Cardinality(SeedContacts(i)) = n_frozen
    /\ PoolIndices # {}

SeedBuilt == pc \in {"assemble", "loop", "trial_end", "done"}

\* the entries of a list that are seed indices, in the list's order
SeedPart(l) == SelectSeq(l, LAMBDA j : j < n_frozen)

C11_SeedKept ==
    SeedBuilt =>
        LET built == build_crystal_adjacency(params.K, rank)
        IN  /\ n_frozen = built.n
            /\ frozen_adj = built.adj
            /\ layer_indices = built.layer_indices

C11_SameStart ==
    Assembled =>
        \A i \in 0..(n_frozen - 1) :
            /\ SeedPart(adj[i]) = frozen_adj[i]
            /\ Len(adj[i]) <= Len(frozen_adj[i]) + args.pool_size

\* C11: the seed graph is read-only across trials: at every point after its
\* construction frozen_adj and layer_indices are what build_crystal_adjacency
\* returned, and every trial's adjacency starts from it: a seed vertex's list
\* holds the seed adjacency and at most one entry per pool oscillator of the
\* current trial.
C11_SeedReadOnly == C11_SeedKept /\ C11_SameStart

\* a later trial has wired its own pool to the seed
C11_Witness ==
    /\ IsFault
    /\ trial >= 1
    /\ pc = "loop"
    /\ \E i \in 0..(n_frozen - 1) : Len(adj[i]) > Len(frozen_adj[i])

\* the number of entries of pool oscillators in the lists of pool
\* oscillators: two per pool-pool edge
PoolEntries ==
    ForEach(LAMBDA a, i : a + Len(adj[i]) - Cardinality(SeedContacts(i)),
            0, n_frozen, n_frozen + args.pool_size - 1)

C12_Built ==
    (pc = "loop" /\ step = 0) =>
        /\ DOMAIN adj = 0..(n_frozen + args.pool_size - 1)
        /\ \A i \in DOMAIN adj :
               /\ \A k \in DOMAIN adj[i] :
                      /\ adj[i][k] \in DOMAIN adj
                      /\ InList(i, adj[adj[i][k]])
                      /\ adj[i][k] # i
               /\ Cardinality(Elems(adj[i])) = Len(adj[i])
        /\ \A i \in 0..(n_frozen - 1) : SeedPart(adj[i]) = frozen_adj[i]
        /\ PoolEntries <= 2 * (2 * args.pool_size)
        /\ args.pool_size = 1 => PoolEntries = 0

C12_Fixed == pc # "assemble" => adj' = adj

\* C12: the adjacency a trial builds is symmetric, has no self-loop and no
\* duplicate entry, holds the seed adjacency verbatim on the seed indices
\* and at most 2 * pool_size pool-pool edges (none when pool_size = 1), and
\* nothing but the assembly of a trial changes it.
C12_CombinedAdjacency == []C12_Built /\ [][C12_Fixed]_vars

\* a stepped network with pool-pool edges, one of them drawn more than once
C12_Witness ==
    /\ pc = "loop"
    /\ step >= 1
    /\ PoolEntries >= 4
    /\ PoolEntries < 2 * (2 * args.pool_size)

\* C13 as stated, for a run with a pool and a step budget: a result reports
\* success exactly when the coherence it reports is at least the target.
C13_SuccessIffReached ==
    (LoopOver /\ args.pool_size >= 1 /\ args.max_steps >= 1) =>
        (Outcome.success <=> Outcome.coherence >= args.target)

\* C13, amended: a successful result reports the coherence the loop compared
\* and found at least the target; an exhausted one reports the coherence of
\* the final phase vector, measured after the last update and compared with
\* nothing, while every coherence the loop did compare was below the target.
C13_ReportedCoherence ==
    LoopOver =>
        /\ Outcome.success =>
               /\ Outcome.coherence = measured[Len(measured)]
               /\ Outcome.coherence >= args.target
        /\ ~Outcome.success =>
               /\ Outcome.coherence = coherence(phases)
               /\ \A k \in DOMAIN measured : measured[k] < args.target

\* the last update of an exhausted run moved the coherence
C13_Witness ==
    /\ LoopOver
    /\ ~Outcome.success
    /\ args.max_steps >= 1
    /\ Outcome.coherence # measured[Len(measured)]
    /\ Outcome.coherence >= args.target

\* the pulses of layer l among the updates 0..n-1, each counted with its
\* direction
RECURSIVE NetPulses(_, _)
NetPulses(l, n) ==
    IF n = 0 THEN 0
    ELSE NetPulses(l, n - 1)
         + (IF (n - 1) % 3 # l THEN 0
            ELSE IF ((n - 1) \div 12) % 2 = 0 THEN 1 ELSE 0 - 1)

\* C14: the layer pulsed at step s is the one of index s mod 3, so that after
\* any number of updates a vertex of a pulsed layer stands at its initial
\* phase plus 0, A, 2A, 3A or 4A (mod 2*pi), the net of the pulses so far,
\* every other frozen vertex at its initial phase, and after a multiple of
\* 24 updates every frozen vertex at its initial phase.
C14_PulseSchedule ==
    Assembled =>
        /\ params.rhythm[(step % 12) + 1][2] = step % 3
        /\ \A l \in 0..2 :
               /\ NetPulses(l, step) \in 0..4
               /\ layer_keys[l + 1] \in DOMAIN layer_indices =>
                      \A i \in Elems(layer_indices[layer_keys[l + 1]]) :
                          phases[i] = (fresh[i] + NetPulses(l, step) * params.amplitude)
                                          % TwoPi
        /\ \A i \in Shells : phases[i] = fresh[i]
        /\ step % 24 = 0 => \A i \in 0..(n_frozen - 1) : phases[i] = fresh[i]

\* two cycles of 12 beats have been played on a seed with a triad
C14_Witness ==
    /\ pc = "loop"
    /\ step = 24
    /\ params.K = 3
    /\ "triad" \in DOMAIN layer_indices
    /\ \A i \in 0..(n_frozen - 1) : phases[i] = 0

\* the layers of a crystal of K layers, by the claim's list, and their sizes
LayerNames(K) ==
    {"center", "icosa"} \cup (IF K >= 3 THEN {"triad"} ELSE {})
                        \cup {ShellNames[m] : m \in 1..(K - 3)}

LayerSize(name) ==
    IF name = "center" THEN 1
    ELSE IF name = "triad" THEN 3
    ELSE IF name = "icosa" THEN 12
    ELSE 12 * Pow3(CHOOSE m \in DOMAIN ShellNames : ShellNames[m] = name)

\* C15: build_crystal_adjacency(K) returns as many vertices as
\* crystal_vertices(K) counts, in the layers center, triad (K >= 3), icosa,
\* shell_4 .. shell_K: contiguous index ranges of sizes 1, 3, 12 and 12 * 3^m,
\* pairwise disjoint, that together are 0..n_frozen-1.
C15_SeedLayers ==
    call.fn = "build_crystal_adjacency" =>
        LET K == call.arg
            n == ret.value.n
            layers == ret.value.layer_indices
        IN  /\ ~crystal_vertices(K).raised
            /\ n = crystal_vertices(K).value
            /\ DOMAIN layers = LayerNames(K)
            /\ \A a \in DOMAIN layers :
                   /\ Len(layers[a]) = LayerSize(a)
                   /\ \A k \in 1..(Len(layers[a]) - 1) :
                          layers[a][k + 1] = layers[a][k] + 1
                   /\ \A b \in DOMAIN layers \ {a} :
                          Elems(layers[a]) \cap Elems(layers[b]) = {}
            /\ UNION {Elems(layers[a]) : a \in DOMAIN layers} = 0..(n - 1)

\* a seed with a triad and a shell was built
C15_Witness ==
    /\ call.fn = "build_crystal_adjacency"
    /\ call.arg = 4
    /\ ret.value.n = 52
    /\ Len(ret.value.layer_indices["shell_4"]) = 36

(***************************************************************************)
(* Claims about the reactive correction loop.                              *)
(***************************************************************************)
\* the signed angle from the reference 0 to a phase in [0, 2*pi)
AngularError(p) == IF p < Pi THEN p ELSE p - TwoPi

Nudged(ph, threshold) == {i \in DOMAIN ph : abs(AngularError(ph[i])) > threshold}

C10_Step ==
    /\ total_corrections' >= total_corrections
    /\ step' # step =>
        /\ step' = step + 1
        /\ DOMAIN phases' = DOMAIN phases
        /\ \A i \in DOMAIN phases :
               IF i \in Nudged(phases, args.threshold)
               THEN phases'[i] =
                       (phases[i] - args.strength * sign(AngularError(phases[i]))) % TwoPi
               ELSE phases'[i] = phases[i]
        /\ total_corrections' =
               total_corrections + Cardinality(Nudged(phases, args.threshold))
    /\ step' = step => (phases' = phases /\ total_corrections' = total_corrections)

C10_Total ==
    /\ total_corrections <= args.pool_size * step
    /\ pc = "done" => result.corrections = total_corrections

\* C10: every pass of run_correction leaves unchanged each oscillator whose
\* wrapped error to the reference is within the threshold, moves every other
\* oscillator by strength in the direction of the reference, and adds to the
\* counter exactly the number of oscillators it moved; the counter never
\* decreases, never exceeds pool_size times the number of passes made, and
\* is the "corrections" of the result.
C10_CorrectionCounter == [][C10_Step]_vars /\ []C10_Total

\* a finished run of two passes or more in which some oscillators were moved
\* and some were left alone
C10_Witness ==
    /\ pc = "done"
    /\ args.fn = "run_correction"
    /\ step >= 2
    /\ result.corrections > 0
    /\ result.corrections < args.pool_size * step
    /\ \E i \in DOMAIN phases : phases[i] = 0
====
